---- MODULE Spec2Model ----
(***************************************************************************)
(* A model of the Trie container (trie.hpp), of its depth-first cursor     *)
(* (trie_iterator.hpp), of compare and of the classifier built on them     *)
(* (knn_trie.hpp).  A Trie object is a node: one data value and a          *)
(* vector of (element, child) pairs.  The model keeps the tree as a value: *)
(* a record [data, nodes] whose nodes field is the vector, each entry a    *)
(* pair <<element, child>>.  A node_iterator is an index into that vector, *)
(* Len + 1 standing for the past-the-end iterator; a reference to a node's *)
(* data is the sequence of indices leading to the node from the root.      *)
(***************************************************************************)
EXTENDS Integers, Sequences, FiniteSets, TLC

\* Bounds of the model.
MaxElem == 2
MaxKeyLen == 2
MaxData == 1
MaxSteps == 16
MaxLabel == 1
MaxLearn == 3
MaxK == 2
MaxNodes == 4

Elems == 1..MaxElem
Data == 0..MaxData

\* Data{} of Trie() for the int payload of the tests.
DefaultData == 0

RECURSIVE SeqsUpTo(_, _)
SeqsUpTo(S, n) ==
    IF n = 0 THEN {<<>>}
    ELSE LET shorter == SeqsUpTo(S, n - 1)
         IN shorter \cup {Append(s, x) : s \in shorter, x \in S}

Keys == SeqsUpTo(Elems, MaxKeyLen)

VARIABLES
    trie,     \* the Trie object: the root node and all it owns
    cur,      \* the TrieIterator in use, if any: its _path
    last,     \* the last call made and what it returned
    written,  \* the keys stored so far, as the Store steps record them
    walk,     \* how the cursor was obtained and moved since
    other,    \* a second Trie object, the other side of a copy
    knn       \* the _trie of a KNNTrie object

vars == <<trie, cur, last, written, walk, other, knn>>

----------------------------------------------------------------------------
\* The Trie class.

\* Trie() leaving _data uninitialised instead of value-initialising it.
NewTrie_garbage == [data |-> MaxData, nodes |-> <<>>]

NewTrie == [data |-> DefaultData, nodes |-> <<>>]

\* is_leaf answering true for every node.
is_leaf_always(t) == TRUE

is_leaf(t) == t.nodes = <<>>

nbegin(t) == 1
nend(t) == Len(t.nodes) + 1

\* first_less_than comparing with <= : the search then passes an equal element.
first_less_or_equal(lhs, rhs) == lhs[1] <= rhs

first_less_than(lhs, rhs) == lhs[1] < rhs

\* std::lower_bound: a binary search over [first, first + count).
RECURSIVE lower_bound(_, _, _, _)
lower_bound(s, first, count, e) ==
    IF count <= 0 THEN first
    ELSE LET step == count \div 2
             mid == first + step
         IN IF first_less_than(s[mid], e)
            THEN lower_bound(s, mid + 1, count - (step + 1), e)
            ELSE lower_bound(s, first, step, e)

nlower_bound(t, e) == lower_bound(t.nodes, 1, Len(t.nodes), e)

\* All of a sequence but its last element, and its last element.
Front(s) == SubSeq(s, 1, Len(s) - 1)
Back(s) == s[Len(s)]

\* vector::emplace_back(x) where emplace(it, x) is called for.
emplace_back(s, i, x) == Append(s, x)

\* vector::emplace(it, x)
emplace(s, i, x) == SubSeq(s, 1, i - 1) \o <<x>> \o SubSeq(s, i, Len(s))

\* insert_node for any Data, fresh being what new Trie() makes for it: the
\* node after the call and the iterator the call returns.
insert_node_of(t, e, fresh) ==
    LET i == nlower_bound(t, e)
    IN IF i = nend(t) \/ t.nodes[i][1] # e
       THEN [node |-> [t EXCEPT !.nodes = emplace(@, i, <<e, fresh>>)], it |-> i]
       ELSE [node |-> t, it |-> i]

\* insert_node of Trie<Key, int>.
insert_node(t, e) == insert_node_of(t, e, NewTrie)

\* insert_key for any Data: the trie after the call and the reference the
\* call returns.
RECURSIVE insert_key_of(_, _, _)
insert_key_of(t, key, fresh) ==
    IF key = <<>> THEN [trie |-> t, ref |-> <<>>]
    ELSE LET r == insert_node_of(t, Head(key), fresh)
             sub == insert_key_of(r.node.nodes[r.it][2], Tail(key), fresh)
         IN [trie |-> [r.node EXCEPT !.nodes[r.it][2] = sub.trie],
             ref |-> <<r.it>> \o sub.ref]

\* insert_key of Trie<Key, int>.
insert_key(t, key) == insert_key_of(t, key, NewTrie)

\* Reading and writing through a reference to a node's _data.
RECURSIVE deref(_, _)
deref(t, ref) ==
    IF ref = <<>> THEN t.data ELSE deref(t.nodes[Head(ref)][2], Tail(ref))

\* An assignment that also overwrites every node on the way to the target.
RECURSIVE assign_all(_, _, _)
assign_all(t, ref, d) ==
    IF ref = <<>> THEN [t EXCEPT !.data = d]
    ELSE [t EXCEPT !.data = d, !.nodes[Head(ref)][2] = assign_all(@, Tail(ref), d)]

RECURSIVE assign(_, _, _)
assign(t, ref, d) ==
    IF ref = <<>> THEN [t EXCEPT !.data = d]
    ELSE [t EXCEPT !.nodes[Head(ref)][2] = assign(@, Tail(ref), d)]

insert(t, key, d) ==
    LET r == insert_key(t, key) IN assign(r.trie, r.ref, d)

\* Trie(const Trie& other), read with the loop variable declared and the
\* pair emplaced: the data is copied and every child cloned.
RECURSIVE copy_construct(_)
copy_construct(from) ==
    [data |-> from.data,
     nodes |-> [i \in 1..Len(from.nodes) |->
                  <<from.nodes[i][1], copy_construct(from.nodes[i][2])>>]]

\* The loop of operator=(const Trie&), read the same way, from the i-th
\* node of the source on: the clones are pushed behind what _nodes holds.
RECURSIVE push_back_copies(_, _, _)
push_back_copies(nodes, from, i) ==
    IF i > Len(from.nodes) THEN nodes
    ELSE push_back_copies(
             Append(nodes, <<from.nodes[i][1], copy_construct(from.nodes[i][2])>>),
             from, i + 1)

\* operator=(const Trie& other); self says that &other == this.
copy_assign(to, from, self) ==
    IF self THEN to
    ELSE [data |-> from.data, nodes |-> push_back_copies(to.nodes, from, 1)]

\* match returning a default-constructed Data on a miss instead of _data.
RECURSIVE match_default(_, _)
match_default(t, key) ==
    IF key = <<>> THEN <<TRUE, t.data>>
    ELSE LET i == nlower_bound(t, Head(key))
         IN IF i # nend(t) /\ t.nodes[i][1] = Head(key)
            THEN match_default(t.nodes[i][2], Tail(key))
            ELSE <<FALSE, DefaultData>>

RECURSIVE match(_, _)
match(t, key) ==
    IF key = <<>> THEN <<TRUE, t.data>>
    ELSE LET i == nlower_bound(t, Head(key))
         IN IF i # nend(t) /\ t.nodes[i][1] = Head(key)
            THEN match(t.nodes[i][2], Tail(key))
            ELSE <<FALSE, t.data>>

\* insert(key, func): the update functors the callers pass.
Fns == {"inc", "zero"}
Apply(f, d) == IF f = "inc" THEN d + 1 ELSE 0

\* insert(key, func) without line 148: the root's data is not updated.
RECURSIVE insert_fn_below(_, _, _)
insert_fn_below(t, key, f) ==
    IF key = <<>> THEN t
    ELSE LET r == insert_node(t, Head(key))
             c == r.node.nodes[r.it][2]
             c1 == insert_fn_below([c EXCEPT !.data = Apply(f, @)], Tail(key), f)
         IN [r.node EXCEPT !.nodes[r.it][2] = c1]

RECURSIVE insert_fn(_, _, _)
insert_fn(t, key, f) ==
    LET t0 == [t EXCEPT !.data = Apply(f, @)]
    IN IF key = <<>> THEN t0
       ELSE LET r == insert_node(t0, Head(key))
            IN [r.node EXCEPT !.nodes[r.it][2] = insert_fn(@, Tail(key), f)]

\* operator[]: the trie after the call and the reference it returns.
index(t, key) == insert_key(t, key)

\* each_elem.  The functor is one that answers false exactly at the nodes of
\* the set stops; a call is recorded with the node it was made for (at),
\* which the functor itself is not given.
RECURSIVE each_elem_node(_, _, _, _), each_elem_nodes(_, _, _, _)

\* each_elem(element, func) descending whatever func returns.
each_elem_node_always(t, element, at, stops) ==
    <<[elem |-> element, data |-> t.data, at |-> at]>>
        \o each_elem_nodes(t, 1, at, stops)

\* each_elem(element, func) on the node t.
each_elem_node(t, element, at, stops) ==
    LET call == [elem |-> element, data |-> t.data, at |-> at]
    IN IF at \notin stops
       THEN <<call>> \o each_elem_nodes(t, 1, at, stops)
       ELSE <<call>>

\* The loop over _nodes, from its i-th entry on.
each_elem_nodes(t, i, at, stops) ==
    IF i > Len(t.nodes) THEN <<>>
    ELSE each_elem_node(t.nodes[i][2], t.nodes[i][1],
                        Append(at, t.nodes[i][1]), stops)
             \o each_elem_nodes(t, i + 1, at, stops)

each_elem(t, stops) == each_elem_nodes(t, 1, <<>>, stops)

\* each.  The visitor answers false exactly for the keys of the set stops.
\* Both operators return the calls made and the shared key object as the
\* call leaves it.
RECURSIVE each_node(_, _, _), each_nodes(_, _, _, _)

\* each(key, visitor) on the node t.
each_node(t, key, stops) ==
    LET call == [key |-> key, data |-> t.data]
    IN IF key \notin stops
       THEN LET r == each_nodes(t, 1, key, stops)
            IN [visits |-> <<call>> \o r.visits, key |-> r.key]
       ELSE [visits |-> <<call>>, key |-> key]

\* The loop of each without line 229: the key is never popped.
each_nodes_no_pop(t, i, key, stops) ==
    IF i > Len(t.nodes) THEN [visits |-> <<>>, key |-> key]
    ELSE LET r == each_node(t.nodes[i][2], Append(key, t.nodes[i][1]), stops)
             rest == each_nodes(t, i + 1, r.key, stops)
         IN [visits |-> r.visits \o rest.visits, key |-> rest.key]

\* The loop over _nodes, from its i-th entry on: push_back, the call, pop_back.
each_nodes(t, i, key, stops) ==
    IF i > Len(t.nodes) THEN [visits |-> <<>>, key |-> key]
    ELSE LET r == each_node(t.nodes[i][2], Append(key, t.nodes[i][1]), stops)
             popped == SubSeq(r.key, 1, Len(r.key) - 1)
             rest == each_nodes(t, i + 1, popped, stops)
         IN [visits |-> r.visits \o rest.visits, key |-> rest.key]

each(t, stops) == each_node(t, <<>>, stops).visits

----------------------------------------------------------------------------
\* OverlapScore and compare.

\* OverlapScore::init() and OverlapScore::operator()(val, lhs, rhs).
score_init == 0
score_step(val, lhs, rhs) == val + (IF lhs = rhs THEN 1 ELSE 0)

\* *first of the lambda of compare.  The pattern is pattern[1] to
\* pattern[Len(pattern)], last the position after it; a read at or past last
\* is outside the pattern and yields whatever is there, junk.
pattern_at(pattern, first, junk) ==
    IF first \in 1..Len(pattern) THEN pattern[first] ELSE junk

\* each_elem with the lambda of compare as func.  each_elem takes func by
\* value, so every call works on its own copy of the captured score and
\* first, copied from the caller's as the caller's own call left them.  The
\* operators give the calls of result, each with the node it was made for.
RECURSIVE compare_elem(_, _, _, _, _, _, _), compare_nodes(_, _, _, _, _, _, _)

\* each_elem(element, func) on the node t, score and first being func's.
compare_elem(t, element, at, score, first, pattern, junk) ==
    LET score1 == score_step(score, element, pattern_at(pattern, first, junk))
        first1 == first + 1
    IN IF first1 = Len(pattern) + 1
       THEN <<[score |-> score1, data |-> t.data, at |-> at]>>
       ELSE compare_nodes(t, 1, at, score1, first1, pattern, junk)

\* The loop over _nodes, from its i-th entry on.
compare_nodes(t, i, at, score, first, pattern, junk) ==
    IF i > Len(t.nodes) THEN <<>>
    ELSE compare_elem(t.nodes[i][2], t.nodes[i][1], Append(at, t.nodes[i][1]),
                      score, first, pattern, junk)
             \o compare_nodes(t, i + 1, at, score, first, pattern, junk)

\* compare(trie, pattern, score_function, result): the calls of result.
compare(t, pattern, junk) ==
    compare_nodes(t, 1, <<>>, score_init, 1, pattern, junk)

----------------------------------------------------------------------------
\* The KNNTrie class.  LabelFrequencies is a std::map<Label, int>, kept here
\* as the sequence of its (label, count) entries in key order.

Labels == 0..MaxLabel

\* Label() for the int labels of the class's default.
DefaultLabel == 0

\* LabelFrequencies().
EmptyMap == <<>>

\* Trie() of Trie<Features, LabelFrequencies>.
NewKnnTrie == [data |-> EmptyMap, nodes |-> <<>>]

\* Where the entry for label l is or would be.
map_lower_bound(m, l) == Cardinality({i \in 1..Len(m) : m[i][1] < l}) + 1

\* m[l] += n, operator[] adding the entry (l, 0) when there is none.
map_add(m, l, n) ==
    LET i == map_lower_bound(m, l)
        m1 == IF i <= Len(m) /\ m[i][1] = l THEN m ELSE emplace(m, i, <<l, 0>>)
    IN [m1 EXCEPT ![i][2] = @ + n]

\* The count m holds for l, none counting as 0.
CountOf(m, l) ==
    IF \E i \in 1..Len(m) : m[i][1] = l
    THEN m[CHOOSE i \in 1..Len(m) : m[i][1] = l][2]
    ELSE 0

\* The loop of majority_vote from it on, with a >= in place of the >.
RECURSIVE vote_loop_last(_, _, _)
vote_loop_last(labels, it, best) ==
    IF it > Len(labels) THEN best
    ELSE vote_loop_last(labels, it + 1,
                        IF labels[it][2] >= labels[best][2] THEN it ELSE best)

\* The loop of majority_vote from it on: the iterator best it ends with.
RECURSIVE vote_loop(_, _, _)
vote_loop(labels, it, best) ==
    IF it > Len(labels) THEN best
    ELSE vote_loop(labels, it + 1,
                   IF labels[it][2] > labels[best][2] THEN it ELSE best)

majority_vote(labels) ==
    IF labels = EmptyMap THEN DefaultLabel
    ELSE labels[vote_loop(labels, 1, 1)][1]

\* learn written with insert(features, func): the label is counted at the
\* root and at every node on the way as well.
RECURSIVE learn_prefixes(_, _, _)
learn_prefixes(t, features, label) ==
    LET t0 == [t EXCEPT !.data = map_add(@, label, 1)]
    IN IF features = <<>> THEN t0
       ELSE LET r == insert_node_of(t0, Head(features), NewKnnTrie)
            IN [r.node EXCEPT !.nodes[r.it][2] =
                                 learn_prefixes(@, Tail(features), label)]

\* learn: ++_trie[features][label].
learn(t, features, label) ==
    LET r == insert_key_of(t, features, NewKnnTrie)
    IN assign(r.trie, r.ref, map_add(deref(r.trie, r.ref), label, 1))

\* The lambda of classify(features) run over the calls compare makes, from
\* the i-th on; best holds score and labels, and from, the nodes the labels
\* were taken from, the last of them being the one they are from.
RECURSIVE classify_calls(_, _, _)
classify_calls(calls, i, best) ==
    IF i > Len(calls) THEN best
    ELSE classify_calls(calls, i + 1,
            IF calls[i].score > best.score
            THEN [score |-> calls[i].score, labels |-> calls[i].data,
                  from |-> Append(best.from, calls[i].at)]
            ELSE best)

\* classify(features): score and labels after compare, and the label returned.
classify(t, features, junk) ==
    LET best == classify_calls(compare(t, features, junk), 1,
                               [score |-> 0, labels |-> EmptyMap, from |-> <<>>])
    IN [labels |-> best.labels, from |-> best.from,
        res |-> majority_vote(best.labels)]

\* KBest of classify(features, k).  _best is a std::set of (score, map)
\* pairs, kept here as the sequence of its elements in the set's order.

\* operator< of the entries of a map, of two maps and of two (score, map) pairs.
entry_less(x, y) == x[1] < y[1] \/ (x[1] = y[1] /\ x[2] < y[2])

RECURSIVE map_less(_, _)
map_less(a, b) ==
    IF b = <<>> THEN FALSE
    ELSE IF a = <<>> THEN TRUE
    ELSE IF entry_less(Head(a), Head(b)) THEN TRUE
    ELSE IF entry_less(Head(b), Head(a)) THEN FALSE
    ELSE map_less(Tail(a), Tail(b))

pair_less(x, y) == x[1] < y[1] \/ (x[1] = y[1] /\ map_less(x[2], y[2]))

\* std::set::insert: x goes before the first element not less than it,
\* unless that element is x.
set_insert(best, x) ==
    LET i == Cardinality({j \in 1..Len(best) : pair_less(best[j], x)}) + 1
    IN IF i <= Len(best) /\ best[i] = x THEN best ELSE emplace(best, i, x)

\* KBest(unsigned k) constructed from the int k: k itself when it is not
\* negative, else 2^32 + k, a number no size of _best reaches, for which the
\* largest integer at hand stands.
to_unsigned(k) == IF k >= 0 THEN k ELSE 2147483647

\* store_if_better(s, l): _best after the call; lowest is _best.begin(),
\* which stays the first element when a greater one is inserted.
store_if_better(best, k, s, l) ==
    IF best = <<>> THEN set_insert(best, <<s, l>>)
    ELSE LET best1 == IF s > Head(best)[1]
                      THEN set_insert(best, <<s, l>>)
                      ELSE best
         IN IF Len(best1) > k THEN Tail(best1) ELSE best1

\* The calls compare makes, from the i-th on, handed to store_if_better.
RECURSIVE store_calls(_, _, _, _)
store_calls(calls, i, best, k) ==
    IF i > Len(calls) THEN best
    ELSE store_calls(calls, i + 1,
                     store_if_better(best, k, calls[i].score, calls[i].data), k)

\* The same calls, each with _best as the call found it, the candidate it
\* was given and _best as it left it.
RECURSIVE store_steps(_, _, _, _)
store_steps(calls, i, best, k) ==
    IF i > Len(calls) THEN <<>>
    ELSE LET after == store_if_better(best, k, calls[i].score, calls[i].data)
         IN <<[before |-> best, cand |-> <<calls[i].score, calls[i].data>>,
               after |-> after]>>
                \o store_steps(calls, i + 1, after, k)

\* The inner loop of label_frequencies, over the entries of one map.
RECURSIVE add_map(_, _)
add_map(labels, m) ==
    IF m = <<>> THEN labels
    ELSE add_map(map_add(labels, Head(m)[1], Head(m)[2]), Tail(m))

\* label_frequencies(): the outer loop, over _best.
RECURSIVE label_frequencies(_)
label_frequencies(best) ==
    IF best = <<>> THEN EmptyMap
    ELSE add_map(label_frequencies(Front(best)), Back(best)[2])

\* classify(features, k): _best after compare, the summed map and the label.
classify_k(t, features, k, junk) ==
    LET calls == compare(t, features, junk)
        best == store_calls(calls, 1, <<>>, to_unsigned(k))
        labels == label_frequencies(best)
    IN [best |-> best, labels |-> labels, res |-> majority_vote(labels),
        steps |-> store_steps(calls, 1, <<>>, to_unsigned(k))]

----------------------------------------------------------------------------
\* The TrieIterator class.  _path is a stack of node_iterators, the bottom
\* one into the root's vector and each next one into the vector of the node
\* the one below it points at.

\* *top()->second of the stack, the root standing for the empty stack.
RECURSIVE top_node(_, _)
top_node(t, path) ==
    IF path = <<>> THEN t ELSE top_node(t.nodes[Head(path)][2], Tail(path))

begin(t) == <<>>
end(t) == <<nend(t)>>

at_begin(path) == path = <<>>
at_end(t, path) == Len(path) = 1 /\ Back(path) = nend(t)

\* key(): the elements the stack's iterators point at, bottom to top.
RECURSIVE key_of(_, _)
key_of(t, path) ==
    IF path = <<>> THEN <<>>
    ELSE <<t.nodes[Head(path)][1]>> \o key_of(t.nodes[Head(path)][2], Tail(path))

\* data() answering the root's data whatever the position.
data_ref_root(t, path) == <<>>

\* data(): the reference returned, _root->data() or top_node().data().
data_ref(t, path) == IF at_begin(path) THEN <<>> ELSE path

\* The loop of operator++ (lines 176 to 181), it being the popped and
\* advanced iterator.
RECURSIVE pop_up(_, _, _)
pop_up(t, path, it) ==
    IF path # <<>> /\ it = nend(top_node(t, path))
    THEN pop_up(t, Front(path), Back(path) + 1)
    ELSE Append(path, it)

\* operator++ without the descent of lines 184 to 186: an inner node is
\* left the way a leaf is.
increment_past_children(t, path) ==
    IF at_begin(path) THEN <<nbegin(t)>>
    ELSE IF at_end(t, path) THEN path
    ELSE pop_up(t, Front(path), Back(path) + 1)

increment(t, path) ==
    IF at_begin(path) THEN <<nbegin(t)>>
    ELSE IF at_end(t, path) THEN path
    ELSE IF is_leaf(top_node(t, path))
         THEN pop_up(t, Front(path), Back(path) + 1)
         ELSE Append(path, nbegin(top_node(t, path)))

\* The loop of operator-- pushing nend() once instead of the last children.
descend_to_end(t, path) ==
    IF ~is_leaf(top_node(t, path))
    THEN Append(path, nend(top_node(t, path)))
    ELSE path

\* The loop of operator-- (lines 202 to 206).
RECURSIVE descend_last(_, _)
descend_last(t, path) ==
    IF ~is_leaf(top_node(t, path))
    THEN descend_last(t, Append(path, nend(top_node(t, path)) - 1))
    ELSE path

\* operator-- without the loop: it stops at the previous sibling.
decrement_to_sibling(t, path) ==
    IF at_begin(path) THEN path
    ELSE LET it == Back(path)
             rest == Front(path)
         IN IF it # nbegin(top_node(t, rest)) THEN Append(rest, it - 1) ELSE rest

decrement(t, path) ==
    IF at_begin(path) THEN path
    ELSE LET it == Back(path)
             rest == Front(path)
         IN IF \/ rest = <<>> /\ it # nbegin(t)
               \/ rest # <<>> /\ it # nbegin(top_node(t, rest))
            THEN descend_last(t, Append(rest, it - 1))
            ELSE rest

\* The loop of TrieIterator::insert (lines 120 to 122), top_node() read as
\* _path.top_node(): the trie and the iterators pushed, ref leading to the
\* node the top of the stack points at.
RECURSIVE put_node(_, _, _)
put_node(t, ref, n) ==
    IF ref = <<>> THEN n
    ELSE [t EXCEPT !.nodes[Head(ref)][2] = put_node(@, Tail(ref), n)]

RECURSIVE cursor_insert_loop(_, _, _)
cursor_insert_loop(t, ref, key) ==
    IF key = <<>> THEN [trie |-> t, ref |-> ref]
    ELSE LET r == insert_node(top_node(t, ref), Head(key))
         IN cursor_insert_loop(put_node(t, ref, r.node), Append(ref, r.it),
                               Tail(key))

\* TrieIterator::insert(key, data): the trie after the call and the
\* iterators it pushed.  *it at line 118 is the first element of the key;
\* for an empty key it is a read at key.end(), which yields junk.  The loop
\* then starts at that same first element.
cursor_insert(t, key, d, junk) ==
    LET r == insert_node(t, IF key = <<>> THEN junk ELSE Head(key))
        l == cursor_insert_loop(r.node, <<r.it>>, key)
    IN [trie |-> assign(l.trie, l.ref, d), pushed |-> l.ref]

----------------------------------------------------------------------------
\* Observation of a tree, independent of the search the class uses.

RECURSIVE Paths(_)
Paths(t) ==
    {<<>>} \cup UNION {{<<t.nodes[i][1]>> \o p : p \in Paths(t.nodes[i][2])}
                        : i \in 1..Len(t.nodes)}

\* The first edge of t labelled e, found by a linear scan.
EdgeOf(t, e) ==
    LET I == {i \in 1..Len(t.nodes) : t.nodes[i][1] = e}
    IN CHOOSE i \in I : \A j \in I : i <= j

RECURSIVE NodeAt(_, _)
NodeAt(t, p) ==
    IF p = <<>> THEN t ELSE NodeAt(t.nodes[EdgeOf(t, Head(p))][2], Tail(p))

DataOf(t, p) == NodeAt(t, p).data

Prefixes(p) == {SubSeq(p, 1, n) : n \in 0..Len(p)}
ProperPrefixes(p) == Prefixes(p) \ {p}

\* The longest prefix of p that is a path of t.
LongestPrefix(t, p) ==
    CHOOSE q \in Prefixes(p) \cap Paths(t) :
        \A r \in Prefixes(p) \cap Paths(t) : Len(r) <= Len(q)

----------------------------------------------------------------------------
\* No TrieIterator is in use.
NoCursor == [live |-> FALSE, path |-> <<>>]
NoWalk == [from |-> "none", out |-> 0, back |-> 0]

Init ==
    /\ trie = NewTrie
    /\ cur = NoCursor
    /\ last = [op |-> "new"]
    /\ written = {}
    /\ walk = NoWalk
    /\ other = NewTrie
    /\ knn = NewKnnTrie

\* insert(key, data), and trie[key] = data, which is the same assignment
\* through the reference insert_key returns.  Insertion may invalidate
\* iterators: the cursor in use is given up.
InsertStep(key, d) ==
    /\ trie' = insert(trie, key, d)
    /\ last' = [op |-> "insert", key |-> key, val |-> d]
    /\ cur' = NoCursor
    /\ walk' = NoWalk
    /\ UNCHANGED <<other, knn>>

Insert(key, d) ==
    /\ InsertStep(key, d)
    /\ UNCHANGED written

\* The same call, with the key recorded as stored.
Store(key, d) ==
    /\ InsertStep(key, d)
    /\ written' = written \cup {key}

\* insert(key, func).  The int payload is kept within Data.
InsertFn(key, f) ==
    /\ f = "inc" =>
         \A p \in Prefixes(key) \cap Paths(trie) : DataOf(trie, p) < MaxData
    /\ trie' = insert_fn(trie, key, f)
    /\ last' = [op |-> "insert_fn", key |-> key, fn |-> f]
    /\ cur' = NoCursor
    /\ walk' = NoWalk
    /\ UNCHANGED <<written, other, knn>>

\* A read of trie[key].
Index(key) ==
    LET r == index(trie, key)
    IN /\ trie' = r.trie
       /\ last' = [op |-> "index", key |-> key, res |-> deref(r.trie, r.ref)]
       /\ cur' = NoCursor
       /\ walk' = NoWalk
       /\ UNCHANGED <<written, other, knn>>

Match(key) ==
    /\ last' = [op |-> "match", key |-> key, res |-> match(trie, key)]
    /\ UNCHANGED <<trie, cur, written, walk, other, knn>>

\* each_elem(func), func answering false at the nodes of stops.
EachElem(stops) ==
    /\ last' = [op |-> "each_elem", stops |-> stops, visits |-> each_elem(trie, stops)]
    /\ UNCHANGED <<trie, cur, written, walk, other, knn>>

\* each(visitor), visitor answering false for the keys of stops.
Each(stops) ==
    /\ last' = [op |-> "each", stops |-> stops, visits |-> each(trie, stops)]
    /\ UNCHANGED <<trie, cur, written, walk, other, knn>>

\* trie.begin() and trie.end().
Begin ==
    /\ cur' = [live |-> TRUE, path |-> begin(trie)]
    /\ walk' = [from |-> "begin", out |-> 0, back |-> 0]
    /\ last' = [op |-> "begin"]
    /\ UNCHANGED <<trie, written, other, knn>>

End ==
    /\ cur' = [live |-> TRUE, path |-> end(trie)]
    /\ walk' = [from |-> "end", out |-> 0, back |-> 0]
    /\ last' = [op |-> "end"]
    /\ UNCHANGED <<trie, written, other, knn>>

\* The walk after one more step: steps away from where the cursor was
\* obtained are counted, up to cap, until the first step back, and steps
\* back until the first step away again; after that nothing is counted.
Lost == [from |-> "lost", out |-> 0, back |-> 0]

Stepped(dir, cap) ==
    IF walk.from \notin {"begin", "end"} THEN Lost
    ELSE IF dir = walk.from    \* a step back towards where it was obtained
         THEN IF walk.back < walk.out
              THEN [walk EXCEPT !.back = @ + 1]
              ELSE Lost
         ELSE IF walk.back = 0 /\ walk.out < cap
              THEN [walk EXCEPT !.out = @ + 1]
              ELSE Lost

\* ++it
Increment(cap) ==
    /\ cur.live
    /\ cur' = [cur EXCEPT !.path = increment(trie, cur.path)]
    /\ walk' = Stepped("end", cap)
    /\ last' = [op |-> "inc"]
    /\ UNCHANGED <<trie, written, other, knn>>

\* --it
Decrement(cap) ==
    /\ cur.live
    /\ cur' = [cur EXCEPT !.path = decrement(trie, cur.path)]
    /\ walk' = Stepped("begin", cap)
    /\ last' = [op |-> "dec"]
    /\ UNCHANGED <<trie, written, other, knn>>

\* (*it).second = d, for a cursor that is not at end().
CursorWrite(d) ==
    /\ cur.live
    /\ ~at_end(trie, cur.path)
    /\ last' = [op |-> "write", key |-> key_of(trie, cur.path), val |-> d,
                old |-> deref(trie, data_ref(trie, cur.path))]
    /\ trie' = assign(trie, data_ref(trie, cur.path), d)
    /\ UNCHANGED <<cur, written, walk, other, knn>>

\* compare(trie, pattern, OverlapScore(), result), result recording its
\* calls; junk is what a read outside the pattern yields.
Compare(pattern, junk) ==
    /\ last' = [op |-> "compare", pattern |-> pattern,
                calls |-> compare(trie, pattern, junk)]
    /\ UNCHANGED <<trie, cur, written, walk, other, knn>>

\* The number of learn calls a classifier's trie holds the counts of.
RECURSIVE MapTotal(_)
MapTotal(m) == IF m = <<>> THEN 0 ELSE Head(m)[2] + MapTotal(Tail(m))

RECURSIVE SumOver(_, _)
SumOver(t, i) ==
    IF i > Len(t.nodes) THEN 0
    ELSE MapTotal(t.nodes[i][2].data) + SumOver(t.nodes[i][2], 1) + SumOver(t, i + 1)

Learned(t) == MapTotal(t.data) + SumOver(t, 1)

\* The learn(features, label) calls recorded in written, each with its rank
\* among the calls of the same arguments.
TimesLearned(features, label) ==
    Cardinality({w \in written : w[1] = features /\ w[2] = label})

\* knn.learn(features, label), at most MaxLearn times.
Learn(features, label) ==
    /\ Learned(knn) < MaxLearn
    /\ knn' = learn(knn, features, label)
    /\ written' = written \cup
                    {<<features, label, TimesLearned(features, label) + 1>>}
    /\ last' = [op |-> "learn", key |-> features, label |-> label]
    /\ UNCHANGED <<trie, cur, walk, other>>

\* knn.classify(features)
Classify(features, junk) ==
    /\ last' = [op |-> "classify", key |-> features] @@ classify(knn, features, junk)
    /\ UNCHANGED <<trie, cur, written, walk, other, knn>>

\* knn.classify(features, k)
ClassifyK(features, k, junk) ==
    /\ last' = [op |-> "classify_k", key |-> features, k |-> k]
                  @@ classify_k(knn, features, k, junk)
    /\ UNCHANGED <<trie, cur, written, walk, other, knn>>

\* other.insert(key, data)
InsertOther(key, d) ==
    /\ other' = insert(other, key, d)
    /\ last' = [op |-> "insert_other", key |-> key, val |-> d]
    /\ UNCHANGED <<trie, cur, written, walk, knn>>

\* Trie other(trie): the second object is made anew as a copy of the first.
CopyConstruct ==
    /\ other' = copy_construct(trie)
    /\ last' = [op |-> "copy"]
    /\ UNCHANGED <<trie, cur, written, walk, knn>>

\* other = trie, or other = other when self.
CopyAssign(self) ==
    /\ other' = copy_assign(other, IF self THEN other ELSE trie, self)
    /\ last' = [op |-> "assign", self |-> self]
    /\ UNCHANGED <<trie, cur, written, walk, knn>>

\* it.insert(key, data) on a cursor as begin() returns it; junk is what a
\* read at the end of an empty key yields.  The iterators are pushed on the
\* empty stack.
CursorInsert(key, d, junk) ==
    LET r == cursor_insert(trie, key, d, junk)
    IN /\ cur.live
       /\ at_begin(cur.path)
       /\ trie' = r.trie
       /\ cur' = [cur EXCEPT !.path = @ \o r.pushed]
       /\ walk' = Lost
       /\ last' = [op |-> "cursor_insert", key |-> key, val |-> d]
       /\ UNCHANGED <<written, other, knn>>

\* The Trie class used through insert, operator[] and match.
Next ==
    \/ \E key \in Keys, d \in Data : Insert(key, d)
    \/ \E key \in Keys, f \in Fns : InsertFn(key, f)
    \/ \E key \in Keys : Index(key)
    \/ \E key \in Keys : Match(key)

Spec == Init /\ [][Next]_vars

\* A trie that only insert(key, data), trie[key] = data and reads of
\* trie[key] have touched.
NextPlain ==
    \/ \E key \in Keys, d \in Data : Store(key, d)
    \/ \E key \in Keys : Index(key)

SpecPlain == Init /\ [][NextPlain]_vars

\* Tries built by insert(key, data) and walked by each_elem and each.
NextEach ==
    \/ \E key \in Keys, d \in Data : Insert(key, d)
    \/ \E stops \in SUBSET (Paths(trie) \ {<<>>}) : EachElem(stops)
    \/ \E stops \in SUBSET Paths(trie) : Each(stops)

SpecEach == Init /\ [][NextEach]_vars

\* Tries of default data, one level deeper than Keys reach, and a cursor
\* moved over them.
CursorKeys == SeqsUpTo(Elems, MaxKeyLen + 1)

NextCursor ==
    \/ \E key \in CursorKeys : Insert(key, DefaultData)
    \/ Begin
    \/ End
    \/ Increment(MaxSteps)
    \/ Decrement(MaxSteps)

SpecCursor == Init /\ [][NextCursor]_vars

\* Tries built by insert(key, data), and a cursor moved over them and
\* written through; its steps are not counted.
NextDeref ==
    \/ \E key \in Keys, d \in Data : Insert(key, d)
    \/ Begin
    \/ End
    \/ Increment(0)
    \/ Decrement(0)
    \/ \E d \in Data : CursorWrite(d)

SpecDeref == Init /\ [][NextDeref]_vars

\* trie_iterator_test: the three keys it inserts and a cursor over them.
KeyE1 == <<1, 2, 3, 4>>
KeyE2 == <<5, 6, 7, 8, 9>>
KeyE3 == <<1, 2, 3, 5, 8, 13, 21>>
ScenarioE == {<<KeyE1, 1>>, <<KeyE2, 2>>, <<KeyE3, 3>>}

NextE ==
    \/ \E kv \in ScenarioE : Insert(kv[1], kv[2])
    \/ Begin
    \/ End
    \/ Increment(MaxSteps)
    \/ Decrement(MaxSteps)

SpecE == Init /\ [][NextE]_vars

\* Tries built by insert(key, data) and compared with patterns of every
\* length up to one more than the longest key.
Patterns == SeqsUpTo(Elems, MaxKeyLen + 1)

NextCompare ==
    \/ \E key \in Keys, d \in Data : Insert(key, d)
    \/ \E pattern \in Patterns, junk \in Elems : Compare(pattern, junk)

SpecCompare == Init /\ [][NextCompare]_vars

\* A classifier taught feature sequences of up to MaxKeyLen + 1 elements and
\* asked to classify such sequences.
NextKnn ==
    \/ \E features \in Patterns, label \in Labels : Learn(features, label)
    \/ \E features \in Patterns, junk \in Elems : Classify(features, junk)

SpecKnn == Init /\ [][NextKnn]_vars

\* A classifier taught feature sequences of up to MaxKeyLen elements and
\* asked for the vote of the k nearest, k from 0 to MaxK.
NextKBest ==
    \/ \E features \in Keys, label \in Labels : Learn(features, label)
    \/ \E features \in Keys, k \in 0..MaxK, junk \in Elems :
          ClassifyK(features, k, junk)

SpecKBest == Init /\ [][NextKBest]_vars

\* The number of nodes of t.
RECURSIVE Size(_)
Size(t) ==
    LET RECURSIVE below(_)
        below(i) == IF i > Len(t.nodes) THEN 0
                    ELSE Size(t.nodes[i][2]) + below(i + 1)
    IN 1 + below(1)

\* Two Trie objects, each written by insert(key, data), the second also
\* made from and assigned from the first; neither grows beyond MaxNodes nodes.
NextCopy ==
    \/ \E key \in Keys, d \in Data :
          /\ Size(insert(trie, key, d)) <= MaxNodes
          /\ Insert(key, d)
    \/ \E key \in Keys, d \in Data :
          /\ Size(insert(other, key, d)) <= MaxNodes
          /\ InsertOther(key, d)
    \/ CopyConstruct
    \/ \E self \in BOOLEAN :
          /\ Size(copy_assign(other, trie, self)) <= MaxNodes
          /\ CopyAssign(self)

SpecCopy == Init /\ [][NextCopy]_vars

\* Every operation that adds edges: a Trie written by insert, insert with a
\* functor, operator[] and a cursor's insert, or else a classifier taught by
\* learn.  The two objects share nothing, and one of them is in use; the
\* value written has no part in where an edge goes, so insert writes the
\* default value and the cursor MaxData.
TrieInUse == knn = NewKnnTrie
KnnInUse == last.op \in {"new", "learn"}

NextSorted ==
    \/ \E key \in Keys : TrieInUse /\ Insert(key, DefaultData)
    \/ \E key \in Keys, f \in Fns : TrieInUse /\ InsertFn(key, f)
    \/ \E key \in Keys : TrieInUse /\ Index(key)
    \/ TrieInUse /\ Begin
    \/ \E key \in Keys, junk \in Elems :
          TrieInUse /\ CursorInsert(key, MaxData, junk)
    \/ \E features \in Patterns, label \in Labels :
          KnnInUse /\ Learn(features, label)

SpecSorted == Init /\ [][NextSorted]_vars

\* A Trie written by insert(key, data) and through the insert of a cursor
\* that begin() returned.
NextCursorInsert ==
    \/ \E key \in Keys, d \in Data : Insert(key, d)
    \/ Begin
    \/ \E key \in Keys, d \in Data, junk \in Elems : CursorInsert(key, d, junk)

SpecCursorInsert == Init /\ [][NextCursorInsert]_vars

----------------------------------------------------------------------------
\* Claims about the Trie class, checked under Spec.

\* The data a path has in tree t, a path t lacks counting as default data.
DataOrDefault(t, p) == IF p \in Paths(t) THEN DataOf(t, p) ELSE DefaultData

\* C1: after insert(K, D), equally trie[K] = D, a read of trie[K] returns D
\* and match(K) returns (true, D), for every key K, the empty key included.
C1_RoundTrip ==
    last.op = "insert" =>
        /\ match(trie, last.key) = <<TRUE, last.val>>
        /\ LET r == index(trie, last.key) IN deref(r.trie, r.ref) = last.val

C1_Witness ==
    /\ last.op = "insert"
    /\ Len(last.key) = MaxKeyLen
    /\ last.val # DefaultData
    /\ Len(trie.nodes) > 1

\* C2: match(S) returns (true, data of the node for S) exactly when S is a
\* path of the trie, and otherwise (false, data of the node for the longest
\* prefix of S that is a path), the root when no first edge matches.
C2_Match ==
    last.op = "match" =>
        last.res = IF last.key \in Paths(trie)
                   THEN <<TRUE, DataOf(trie, last.key)>>
                   ELSE <<FALSE, DataOf(trie, LongestPrefix(trie, last.key))>>

C2_Witness ==
    /\ last.op = "match"
    /\ last.res = <<FALSE, MaxData>>
    /\ LongestPrefix(trie, last.key) # <<>>
    /\ trie.data = DefaultData

\* C3: insert(key, value) sets the data of the node for key and of no other
\* node: every node that existed keeps its data, the proper prefixes of key
\* among them, and every other node the call creates has default data.
C3_InsertFrame ==
    [][last'.op = "insert" =>
         /\ Paths(trie') = Paths(trie) \cup Prefixes(last'.key)
         /\ DataOf(trie', last'.key) = last'.val
         /\ \A p \in Paths(trie') \ {last'.key} :
               DataOf(trie', p) = DataOrDefault(trie, p)]_vars

C3_Witness ==
    /\ last.op = "insert"
    /\ Len(last.key) = MaxKeyLen
    /\ last.val = DefaultData
    /\ \A p \in ProperPrefixes(last.key) : DataOf(trie, p) = MaxData

\* C4: insert(key, updateFn) replaces the data of the root and of every node
\* on the path of key by updateFn of its previous data (default data for a
\* node the call creates), once each, and leaves every other node's data.
C4_InsertFn ==
    [][last'.op = "insert_fn" =>
         /\ Paths(trie') = Paths(trie) \cup Prefixes(last'.key)
         /\ \A p \in Paths(trie') :
               DataOf(trie', p) = IF p \in Prefixes(last'.key)
                                  THEN Apply(last'.fn, DataOrDefault(trie, p))
                                  ELSE DataOf(trie, p)]_vars

C4_Witness ==
    /\ last.op = "insert_fn"
    /\ last.fn = "inc"
    /\ Len(last.key) = MaxKeyLen
    /\ \E p \in Paths(trie) \ Prefixes(last.key) : DataOf(trie, p) # DefaultData

\* C5, under SpecPlain, where only insert(key, value) and trie[key] = value
\* write data: a read of trie[K] for a key K never stored, absent or a
\* proper prefix of a stored key, returns the default value, creates the
\* missing nodes of K with default data and changes no data.
C5_DefaultOnMiss ==
    [][(last'.op = "index" /\ last'.key \notin written) =>
         /\ last'.res = DefaultData
         /\ Paths(trie') = Paths(trie) \cup Prefixes(last'.key)
         /\ \A p \in Paths(trie') : DataOf(trie', p) = DataOrDefault(trie, p)]_vars

C5_Witness ==
    /\ last.op = "index"
    /\ last.key \notin written
    /\ \E k \in written : last.key \in ProperPrefixes(k) /\ DataOf(trie, k) # DefaultData
    /\ \E k \in written : k \in ProperPrefixes(last.key) /\ DataOf(trie, k) # DefaultData

----------------------------------------------------------------------------
\* Claims about each_elem and each, checked under SpecEach.

\* Depth-first pre-order with siblings ascending: a node before its
\* descendants, and at the first difference the smaller element first.
PreOrderBefore(p, q) ==
    /\ p # q
    /\ \/ p \in Prefixes(q)
       \/ \E k \in 1..Len(p) :
            /\ k <= Len(q)
            /\ SubSeq(p, 1, k - 1) = SubSeq(q, 1, k - 1)
            /\ p[k] < q[k]

\* C6: each_elem calls the functor once for every non-root node none of
\* whose proper ancestors got the answer false, never for the root and
\* never below a node that got false, with the node's element and data,
\* in depth-first pre-order with siblings in ascending element order.
C6_EachElem ==
    last.op = "each_elem" =>
        LET v == last.visits
            expected == {p \in Paths(trie) \ {<<>>} :
                           ProperPrefixes(p) \cap last.stops = {}}
        IN /\ {v[i].at : i \in 1..Len(v)} = expected
           /\ Len(v) = Cardinality(expected)
           /\ \A i \in 1..Len(v) :
                 /\ v[i].elem = v[i].at[Len(v[i].at)]
                 /\ v[i].data = DataOf(trie, v[i].at)
           /\ \A i, j \in 1..Len(v) : i < j => PreOrderBefore(v[i].at, v[j].at)

C6_Witness ==
    /\ last.op = "each_elem"
    /\ Len(last.visits) >= 3
    /\ \E p \in last.stops :
         /\ NodeAt(trie, p).nodes # <<>>
         /\ \E i \in 1..Len(last.visits) : PreOrderBefore(p, last.visits[i].at)

\* C7: each calls the visitor first for the root with the empty key, then
\* once for every node none of whose proper ancestors (the root among them)
\* got the answer false, in depth-first pre-order with siblings ascending,
\* each time with the exact root-to-node path as key and the node's data.
C7_Each ==
    last.op = "each" =>
        LET v == last.visits
            expected == {p \in Paths(trie) : ProperPrefixes(p) \cap last.stops = {}}
        IN /\ v[1].key = <<>>
           /\ {v[i].key : i \in 1..Len(v)} = expected
           /\ Len(v) = Cardinality(expected)
           /\ \A i \in 1..Len(v) : v[i].data = DataOf(trie, v[i].key)
           /\ \A i, j \in 1..Len(v) : i < j => PreOrderBefore(v[i].key, v[j].key)

C7_Witness ==
    /\ last.op = "each"
    /\ Len(last.visits) >= 4
    /\ \E p \in last.stops :
         /\ p # <<>>
         /\ NodeAt(trie, p).nodes # <<>>
         /\ \E i \in 1..Len(last.visits) :
              /\ PreOrderBefore(p, last.visits[i].key)
              /\ Len(last.visits[i].key) = MaxKeyLen

----------------------------------------------------------------------------
\* Claims about the cursor, checked under SpecCursor.

\* C8: N increments from begin() followed by N decrements leave the cursor
\* equal to begin(), and N decrements from end() followed by N increments
\* leave it equal to end(), on any trie, the empty one included, and for
\* any N, also beyond the number of nodes.
C8_Symmetry ==
    (cur.live /\ walk.back = walk.out) =>
        /\ walk.from = "begin" => cur.path = begin(trie)
        /\ walk.from = "end" => cur.path = end(trie)

C8_Witness ==
    /\ cur.live
    /\ walk.from = "end"
    /\ walk.out = walk.back
    /\ walk.out > Cardinality(Paths(trie))
    /\ \E p \in Paths(trie) : Len(p) = MaxKeyLen + 1
    /\ Len(trie.nodes) > 1
    /\ last.op = "inc"

\* C10, under SpecDeref: dereferencing a cursor that is not at end() yields the path of its
\* current node as key (the empty key when rewound) and that node's data;
\* the assignment (*it).second = D makes match(key) = (true, D) and
\* trie[key] = D without creating a node, and changes no other node's
\* data, no path and not the cursor.
C10_Deref ==
    [][last'.op = "write" =>
         LET k == last'.key
         IN /\ at_begin(cur.path) => k = <<>>
            /\ k \in Paths(trie)
            /\ NodeAt(trie, k) = top_node(trie, cur.path)
            /\ last'.old = DataOf(trie, k)
            /\ match(trie', k) = <<TRUE, last'.val>>
            /\ index(trie', k).trie = trie'
            /\ deref(trie', index(trie', k).ref) = last'.val
            /\ Paths(trie') = Paths(trie)
            /\ \A p \in Paths(trie) \ {k} : DataOf(trie', p) = DataOf(trie, p)
            /\ cur' = cur]_vars

C10_Witness ==
    /\ last.op = "write"
    /\ Len(last.key) = MaxKeyLen
    /\ last.val # last.old
    /\ \E p \in Paths(trie) : DataOf(trie, p) # last.val

----------------------------------------------------------------------------
\* Scenario E, checked under SpecE.

TrieE == insert(insert(insert(NewTrie, KeyE1, 1), KeyE2, 2), KeyE3, 3)

\* The cursor has made n steps away from where it was obtained and none back.
Walked(from, n) ==
    /\ trie = TrieE
    /\ cur.live
    /\ walk.from = from
    /\ walk.out = n
    /\ walk.back = 0

CursorData == deref(trie, data_ref(trie, cur.path))

\* C9 as stated: over the trie of scenario E the position after the first
\* increment from begin() has data 0, after 8 increments the cursor is at
\* {1,2,3,5,8,13,21} with data 3, after 13 increments it is at end(), and
\* 13 decrements from end() return it to begin().
C9_AsStated ==
    /\ Walked("begin", 1) => ~at_end(trie, cur.path) /\ CursorData = 0
    /\ Walked("begin", 8) =>
         /\ ~at_end(trie, cur.path)
         /\ key_of(trie, cur.path) = KeyE3
         /\ CursorData = 3
    /\ Walked("begin", 13) => at_end(trie, cur.path)
    /\ Walked("end", 13) => cur.path = begin(trie)

\* C9 amended: the trie has 13 nodes besides the root, so the cursor is at
\* {5,6,7,8,9} with data 2 after 13 increments and at end() after 14, not
\* earlier; 13 decrements from end() leave it at {1} and 14 return it to
\* begin(), not fewer.
C9_ScenarioE ==
    /\ Walked("begin", 1) =>
         /\ key_of(trie, cur.path) = <<1>>
         /\ CursorData = 0
    /\ Walked("begin", 8) =>
         /\ key_of(trie, cur.path) = KeyE3
         /\ CursorData = 3
    /\ Walked("begin", 13) =>
         /\ key_of(trie, cur.path) = KeyE2
         /\ CursorData = 2
    /\ \A n \in 0..MaxSteps :
         /\ Walked("begin", n) => (at_end(trie, cur.path) <=> n >= 14)
         /\ Walked("end", n) => (cur.path = begin(trie) <=> n >= 14)
    /\ Walked("end", 13) => key_of(trie, cur.path) = <<1>>

C9_Witness ==
    /\ Walked("begin", 14)
    /\ at_end(trie, cur.path)
    /\ last.op = "inc"
----------------------------------------------------------------------------
\* Claims about compare, checked under SpecCompare.

\* The overlap of a pattern and a path of the same length, counted directly.
Overlap(pattern, p) == Cardinality({i \in 1..Len(p) : pattern[i] = p[i]})

\* What compare is to report for the pattern: a call per path of the
\* pattern's length, with that path's data and overlap.
CompareAsDocumented(v, pattern) ==
    LET expected == {p \in Paths(trie) : Len(p) = Len(pattern)}
    IN /\ {v[i].at : i \in 1..Len(v)} = expected
       /\ Len(v) = Cardinality(expected)
       /\ \A i \in 1..Len(v) :
             /\ v[i].data = DataOf(trie, v[i].at)
             /\ v[i].score = Overlap(pattern, v[i].at)

\* C11: compare calls the sink exactly once for every path of the trie whose
\* length is that of the pattern, for every pattern length, 0 included, and
\* for no other path, each time with the path's data and the score folded
\* over the aligned pairs of that path alone.
C11_Compare ==
    last.op = "compare" => CompareAsDocumented(last.calls, last.pattern)

\* The same for the patterns that have an element.
Compare_NonEmptyPattern ==
    (last.op = "compare" /\ last.pattern # <<>>) =>
        CompareAsDocumented(last.calls, last.pattern)

Compare_Witness ==
    /\ last.op = "compare"
    /\ Len(last.calls) >= 3
    /\ \E i, j \in 1..Len(last.calls) : last.calls[i].score > last.calls[j].score
----------------------------------------------------------------------------
\* Claims about the classifier, checked under SpecKnn.

\* The label a vote over the map m is to return: the lowest of the labels
\* with the highest count, the default label for the empty map.
MajorityOf(m) ==
    IF m = EmptyMap THEN DefaultLabel
    ELSE LET held == {m[i][1] : i \in 1..Len(m)}
             top == {l \in held : \A k \in held : CountOf(m, k) <= CountOf(m, l)}
         IN CHOOSE l \in top : \A k \in top : l <= k

\* The paths of the classifier's trie of the length of features.
Candidates(features) == {p \in Paths(knn) : Len(p) = Len(features)}

\* The candidate with the highest overlap, the first in traversal order of
\* those that share it.
BestCandidate(features) ==
    LET top == {p \in Candidates(features) :
                  \A q \in Candidates(features) :
                      Overlap(features, q) <= Overlap(features, p)}
    IN CHOOSE p \in top : \A q \in top \ {p} : PreOrderBefore(p, q)

\* The feature sequences passed to learn.
LearnedKeys == {w[1] : w \in written}

\* C12: classify(features), when a path of the length of features exists,
\* returns the majority label of the map at the path with the highest
\* overlap among the paths of that length, the first visited of them when
\* several share the highest score.
C12_Classify ==
    (last.op = "classify" /\ Candidates(last.key) # {}) =>
        last.res = MajorityOf(DataOf(knn, BestCandidate(last.key)))

\* C13: the candidate that determines the label classify(features) returns
\* is a feature sequence that was passed to learn, of the length of
\* features, never a node that exists only as a prefix of a longer one.
C13_LearnedOnly ==
    (last.op = "classify" /\ last.from # <<>>) =>
        /\ Back(last.from) \in LearnedKeys
        /\ Len(Back(last.from)) = Len(last.key)

\* C15: after any sequence of learn calls the map at the node for F gives
\* every label L the number of learn(F, L) calls made, no entry for a label
\* never learned there, and a node created only as a prefix has the empty
\* map: each learn(F, L) raises that one count by one and nothing else.
C15_Learn ==
    /\ Paths(knn) = UNION {Prefixes(k) : k \in LearnedKeys} \cup {<<>>}
    /\ \A p \in Paths(knn) :
          LET m == DataOf(knn, p)
          IN /\ \A l \in Labels : CountOf(m, l) = TimesLearned(p, l)
             /\ \A i \in 1..Len(m) : m[i][1] \in Labels /\ m[i][2] >= 1
             /\ \A i, j \in 1..Len(m) : i < j => m[i][1] < m[j][1]
             /\ p \notin LearnedKeys => m = EmptyMap

C15_Witness ==
    /\ last.op = "learn"
    /\ \E p \in Paths(knn) :
         /\ CountOf(DataOf(knn, p), 0) = 1
         /\ CountOf(DataOf(knn, p), MaxLabel) = 2
         /\ p # <<>>
         /\ DataOf(knn, Front(p)) = EmptyMap

\* C16: the vote over a map returns the label with the highest count, the
\* lowest label of those that share it, and the default label for the
\* empty map.
C16_MajorityVote ==
    last.op = "classify" => last.res = MajorityOf(last.labels)

C16_Witness ==
    /\ last.op = "classify"
    /\ Len(last.labels) > 1
    /\ last.res = MaxLabel
    /\ CountOf(last.labels, MaxLabel) > CountOf(last.labels, 0)
    /\ CountOf(last.labels, 0) > 0
----------------------------------------------------------------------------
\* Claims about classify(features, k), checked under SpecKBest.

\* The distinct (score, map) candidates for features.
ScoredCandidates(features) ==
    {<<Overlap(features, p), DataOf(knn, p)>> : p \in Candidates(features)}

\* The sum over the pairs of R of the count each map holds for l.
RECURSIVE CountIn(_, _)
CountIn(R, l) ==
    IF R = {} THEN 0
    ELSE LET r == CHOOSE r \in R : TRUE
         IN CountOf(r[2], l) + CountIn(R \ {r}, l)

\* C14: at the end of the scoring pass classify(features, k) retains the k
\* highest-scoring distinct (score, map) candidates among the paths of the
\* length of features, all of them when there are fewer than k, whatever the
\* order they were visited in, and returns the majority label of the sum of
\* the counts of exactly the retained maps.
C14_KBest ==
    last.op = "classify_k" =>
        LET all == ScoredCandidates(last.key)
            kept == {last.best[i] : i \in 1..Len(last.best)}
        IN /\ kept \subseteq all
           /\ Cardinality(kept) = IF Cardinality(all) < last.k
                                  THEN Cardinality(all) ELSE last.k
           /\ \A x \in kept, y \in all \ kept : x[1] >= y[1]
           /\ \A l \in Labels : CountOf(last.labels, l) = CountIn(kept, l)
           /\ last.res = MajorityOf(last.labels)
----------------------------------------------------------------------------
\* Claims about copying, checked under SpecCopy.

\* The data of every node of t that the path p leads to, whichever of the
\* edges of an element is taken.
RECURSIVE AllData(_, _)
AllData(t, p) ==
    IF p = <<>> THEN {t.data}
    ELSE UNION {AllData(t.nodes[i][2], Tail(p)) :
                  i \in {j \in 1..Len(t.nodes) : t.nodes[j][1] = Head(p)}}

\* C17: after a copy construction or a copy assignment the target holds
\* exactly the paths of the source, each once and with the data the source
\* has there, whatever the target held before, and the source is as it was.
C17_Copy ==
    [][(last'.op \in {"copy", "assign"}) =>
         LET from == IF last'.op = "assign" /\ last'.self THEN other ELSE trie
         IN /\ trie' = trie
            /\ Paths(other') = Paths(from)
            /\ Size(other') = Size(from)
            /\ \A p \in Paths(from) : AllData(other', p) = AllData(from, p)]_vars
----------------------------------------------------------------------------
\* Claims about the edge lists, checked under SpecSorted.

\* Every edge list of t is strictly ascending by element.
RECURSIVE Sorted(_)
Sorted(t) ==
    /\ \A i, j \in 1..Len(t.nodes) : i < j => t.nodes[i][1] < t.nodes[j][1]
    /\ \A i \in 1..Len(t.nodes) : Sorted(t.nodes[i][2])

\* C18: after any sequence of insert(key, value), insert(key, func),
\* operator[], learn and insert through a cursor, every node's edge list is
\* strictly ascending by element, no element twice, so that a key leads to
\* at most one node.
C18_SortedEdges ==
    /\ Sorted(trie)
    /\ Sorted(knn)
    /\ \A p \in Paths(trie) : Cardinality(AllData(trie, p)) = 1

C18_Witness ==
    /\ last.op = "cursor_insert"
    /\ last.key # <<>>
    /\ Head(last.key) < MaxElem
    /\ Len(trie.nodes) = MaxElem
    /\ \E i \in 1..Len(trie.nodes) : Len(trie.nodes[i][2].nodes) = MaxElem
----------------------------------------------------------------------------
\* Claims about the traversal and the states of the cursor, checked under
\* SpecCursor.

\* C19: on a trie not modified meanwhile, the cursor begin() returns is at
\* the root, after n increments it is at the n-th node each() visits after
\* the root with an always-true visitor, with the same key and data, and it
\* is at end() after N + 1 increments, N the number of non-root nodes, not
\* earlier, and stays there on further increments.
C19_PreOrder ==
    (cur.live /\ walk.from = "begin" /\ walk.back = 0) =>
        LET v == each(trie, {})
            n == walk.out
        IN IF n < Len(v)
           THEN /\ ~at_end(trie, cur.path)
                /\ at_begin(cur.path) <=> n = 0
                /\ key_of(trie, cur.path) = v[n + 1].key
                /\ deref(trie, data_ref(trie, cur.path)) = v[n + 1].data
           ELSE at_end(trie, cur.path)

C19_Witness ==
    /\ cur.live
    /\ walk.from = "begin"
    /\ walk.back = 0
    /\ walk.out = Cardinality(Paths(trie)) + 1
    /\ at_end(trie, cur.path)
    /\ \E p \in Paths(trie) : Len(p) = MaxKeyLen + 1
    /\ Len(trie.nodes) > 1

\* Every entry of the stack is a real edge of the node the entries below it
\* lead to.
RECURSIVE ValidPath(_, _)
ValidPath(t, path) ==
    \/ path = <<>>
    \/ /\ Head(path) \in 1..Len(t.nodes)
       /\ ValidPath(t.nodes[Head(path)][2], Tail(path))

Rewound == cur.path = <<>>
AtEnd == cur.path = <<nend(trie)>>
Positioned == cur.path # <<>> /\ ValidPath(trie, cur.path)

\* C20: on a trie not modified meanwhile, after any increments and
\* decrements of a cursor obtained from begin() or end(), the cursor is in
\* exactly one of the states Rewound, End and Positioned.
C20_ThreeStates ==
    cur.live =>
        /\ Rewound \/ AtEnd \/ Positioned
        /\ ~(Rewound /\ AtEnd) /\ ~(Rewound /\ Positioned) /\ ~(AtEnd /\ Positioned)
        /\ Rewound <=> at_begin(cur.path)
        /\ AtEnd <=> at_end(trie, cur.path)

C20_Witness ==
    /\ cur.live
    /\ walk.from = "lost"
    /\ last.op = "dec"
    /\ Positioned
    /\ Len(cur.path) = MaxKeyLen + 1
    /\ Back(cur.path) > 1
----------------------------------------------------------------------------
\* Claims about the k-best set, checked under SpecKBest.

\* The elements of a sequence.
Range(s) == {s[i] : i \in 1..Len(s)}

\* What the claim asks of one store_if_better call under the capacity k.
StoreAsDocumented(step, k) ==
    /\ Len(step.after) <= k
    /\ \A e \in Range(step.before) \ Range(step.after) :
          \A x \in Range(step.before) \cup {step.cand} : e[1] <= x[1]

\* C21: during classify(features, k), for any k and any order of the
\* candidates, the retained set holds at most k entries after every
\* store_if_better call, and an entry that is evicted has the lowest score
\* of those retained together with the new candidate.
C21_KBestBound ==
    last.op = "classify_k" =>
        \A i \in 1..Len(last.steps) : StoreAsDocumented(last.steps[i], last.k)

\* The same for a capacity of at least one.
KBestBound_PositiveK ==
    (last.op = "classify_k" /\ last.k >= 1) =>
        \A i \in 1..Len(last.steps) : StoreAsDocumented(last.steps[i], last.k)

KBestBound_Witness ==
    /\ last.op = "classify_k"
    /\ last.k = 1
    /\ \E i \in 1..Len(last.steps) :
         /\ Len(last.steps[i].before) = 1
         /\ last.steps[i].after # last.steps[i].before
----------------------------------------------------------------------------
\* Claims about the insert of a cursor, checked under SpecCursorInsert.

\* C22: insert(K, D) on a rewound cursor, K not empty, creates only the
\* missing edges of the path K, stores D at the node for K and leaves the
\* cursor positioned at that node: afterwards the cursor's key is K, its
\* data is D and match(K) = (true, D).
C22_CursorInsert ==
    [][(last'.op = "cursor_insert" /\ last'.key # <<>>) =>
         LET K == last'.key
             D == last'.val
         IN /\ Paths(trie') = Paths(trie) \cup Prefixes(K)
            /\ \A p \in Paths(trie') \ {K} :
                  DataOf(trie', p) = DataOrDefault(trie, p)
            /\ cur'.path # <<>>
            /\ ValidPath(trie', cur'.path)
            /\ key_of(trie', cur'.path) = K
            /\ deref(trie', data_ref(trie', cur'.path)) = D
            /\ match(trie', K) = <<TRUE, D>>]_vars

\* What the call does instead: the same with the key's first element twice.
CursorInsert_Doubled ==
    [][(last'.op = "cursor_insert" /\ last'.key # <<>>) =>
         LET K == <<Head(last'.key)>> \o last'.key
             D == last'.val
         IN /\ Paths(trie') = Paths(trie) \cup Prefixes(K)
            /\ \A p \in Paths(trie') \ {K} :
                  DataOf(trie', p) = DataOrDefault(trie, p)
            /\ cur'.path # <<>>
            /\ ValidPath(trie', cur'.path)
            /\ key_of(trie', cur'.path) = K
            /\ deref(trie', data_ref(trie', cur'.path)) = D
            /\ match(trie', K) = <<TRUE, D>>]_vars
====
